---- MODULE Spec2Model ----
(***************************************************************************)
(* Party / address reconciliation of the Magento integration (party.py).   *)
(*                                                                         *)
(* Strings are sequences of one-character strings, so that joining and     *)
(* splitting are computed, not assumed.  Python's None is the value None   *)
(* below, which is different from every string.                            *)
(***************************************************************************)
EXTENDS Integers, Sequences, FiniteSets, TLC

VARIABLES
    parties,     \* party.party rows, in creation order: [name]
    refs,        \* sale.channel.magento.party rows: [magento_id, channel, party]
    contacts,    \* party.contact_mechanism rows: [party, type, value]
    last,        \* the last party-reconciler call and its outcome
    addresses,   \* party.address rows, in stored order
    alast,       \* the last address-reconciler call and its outcome
    mcase,       \* an (address, payload) pair put to match_with_magento_data
    wk           \* the calls in flight: the waiting find_or_create_using_magento_id
                 \* call, or the ingestion workers with position and inputs

vars == <<parties, refs, contacts, last, addresses, alast, mcase, wk>>

-----------------------------------------------------------------------------
(* Bounds of the model *)

MaxParties == 4

-----------------------------------------------------------------------------
(* Values *)

None == <<"<None>">>

\* bool(x) of Python for a string or None
Truthy(x) == x # None /\ x # <<>>

\* x or None
OrNone(x) == IF Truthy(x) THEN x ELSE None

Channels == {"c1", "c2"}

\* Transaction().context: the key may be missing, or hold None, or a channel
CtxAbsent == "absent"
CtxNone == "None"
Contexts == Channels \cup {CtxNone, CtxAbsent}

MagentoIds == {0, 1}

\* {customer_id, firstname, lastname, email?}; a missing email reads as None.
\* Customer 0 is the guest; customer 1 is seen with two different payloads.
Payloads ==
    { [customer_id |-> 0, firstname |-> <<"J">>, lastname |-> <<"D">>, email |-> <<>>],
      [customer_id |-> 1, firstname |-> <<>>, lastname |-> <<"D">>, email |-> None],
      [customer_id |-> 1, firstname |-> <<"J">>, lastname |-> <<"D">>, email |-> <<"e">>] }

NoData == [customer_id |-> 0, firstname |-> <<>>, lastname |-> <<>>, email |-> None]

-----------------------------------------------------------------------------
(* Pure helpers *)

\* u' '.join(filter(None, [first, last]))
JoinName(first, lastname) ==
    IF Truthy(first) /\ Truthy(lastname) THEN first \o <<" ">> \o lastname
    ELSE IF Truthy(first) THEN first
    ELSE IF Truthy(lastname) THEN lastname
    ELSE <<>>

\* the search without its channel clause
SearchRefs_AnyChannel(rs, mid, ch) ==
    {i \in DOMAIN rs : rs[i].magento_id = mid}

\* MagentoParty.search([('magento_id', '=', mid), ('channel', '=', ch)])
SearchRefs(rs, mid, ch) ==
    {i \in DOMAIN rs : rs[i].magento_id = mid /\ rs[i].channel = ch}

\* "magento_party, = search(...)" inside try/except ValueError:
\* exactly one row unpacks; zero rows and several rows both raise ValueError,
\* which is answered with None.
UnpackOne(rs, found) ==
    IF Cardinality(found) = 1
    THEN [kind |-> "party", party |-> rs[CHOOSE i \in found : TRUE].party]
    ELSE [kind |-> "None", party |-> 0]

\* Party.find_using_magento_id under context ctx
find_using_magento_id(rs, ctx, mid) ==
    IF ctx = CtxAbsent THEN [kind |-> "KeyError", party |-> 0]
    ELSE UnpackOne(rs, SearchRefs(rs, mid, ctx))

\* the lookup reading the channel with context.get, which gives None for a
\* missing key instead of raising KeyError
find_using_magento_data_Get(rs, ctx, data) ==
    UnpackOne(rs, SearchRefs(rs, data.customer_id, IF ctx = CtxAbsent THEN CtxNone ELSE ctx))

\* Party.find_using_magento_data under context ctx
find_using_magento_data(rs, ctx, data) ==
    IF ctx = CtxAbsent THEN [kind |-> "KeyError", party |-> 0]
    ELSE UnpackOne(rs, SearchRefs(rs, data.customer_id, ctx))

\* check_unique_party with the guest test inverted: "magento_id == 0"
check_unique_party_Inverted(rs, mid, ch) ==
    mid = 0 /\ Cardinality(SearchRefs(rs, mid, ch)) > 0

\* check_unique_party without the guest exemption "magento_id != 0"
check_unique_party_NoGuest(rs, mid, ch) ==
    Cardinality(SearchRefs(rs, mid, ch)) > 0

\* MagentoWebsiteParty.check_unique_party for one record, rs being the rows
\* other than the record itself ('id', '!=', magento_partner.id):
\* TRUE when the record is rejected ('party_exists').
check_unique_party(rs, mid, ch) ==
    mid # 0 /\ Cardinality(SearchRefs(rs, mid, ch)) > 0

\* Outcome of Party.create_using_magento_data: the error raised, or "party"
create_outcome(rs, ctx, data) ==
    IF ctx = CtxAbsent THEN "KeyError"
    ELSE IF ctx = CtxNone THEN "RequiredField"
    ELSE IF check_unique_party(rs, data.customer_id, ctx) THEN "DuplicatePartyInChannel"
    ELSE "party"

\* The rows Party.create_using_magento_data writes
NewParty(data) == [name |-> JoinName(data.firstname, data.lastname)]
NewRef(ctx, data, pid) == [magento_id |-> data.customer_id, channel |-> ctx, party |-> pid]
\* contact rows written without the test "if magento_data.get('email')"
NewContacts_Always(data, pid) ==
    <<[party |-> pid, type |-> "email", value |-> data.email]>>

NewContacts(data, pid) ==
    IF Truthy(data.email)
    THEN <<[party |-> pid, type |-> "email", value |-> data.email]>>
    ELSE <<>>

\* Channel.get_current_magento_channel
get_current_magento_channel(ctx) ==
    IF ctx \in Channels THEN "ok" ELSE "ChannelContextMissing"

\* customer_api.info(magento_id): the remote customer with that id
FetchCustomer(mid) == {d \in Payloads : d.customer_id = mid}

\* the operations of the party reconciler
FOC_ID == "find_or_create_using_magento_id"
FOC_DATA == "find_or_create_using_magento_data"
FIND_ID == "find_using_magento_id"
FIND_DATA == "find_using_magento_data"
CREATE == "create_using_magento_data"

Call(op, ctx, mid, data, res, n) ==
    [op |-> op, ctx |-> ctx, mid |-> mid, data |-> data,
     result |-> res.kind, party |-> res.party, nmatch |-> n]

Err(e) == [kind |-> e, party |-> 0]

-----------------------------------------------------------------------------
(* Init *)

NoCall == Call("init", CtxAbsent, 0, NoData, Err("None"), 0)
NoAddrCall == [op |-> "init"]
NoCase == [done |-> FALSE]
NoWorkers == <<>>

Init ==
    /\ parties = <<>>
    /\ refs = <<>>
    /\ contacts = <<>>
    /\ last = NoCall
    /\ addresses = <<>>
    /\ alast = NoAddrCall
    /\ mcase = NoCase
    /\ wk = NoWorkers

-----------------------------------------------------------------------------
(* Party reconciler, called sequentially: a call starts when no call is in  *)
(* flight (wk = NoWorkers); interleaved callers are the workers further on  *)

\* a create that puts the new RemoteCustomerRef in the place of the rows
\* already stored for that customer and channel
DoCreate_Replace(ctx, data) ==
    /\ parties' = Append(parties, NewParty(data))
    /\ refs' = [i \in 1..(Len(refs) + 1) |->
                   IF i = Len(refs) + 1 \/ i \in SearchRefs(refs, data.customer_id, ctx)
                   THEN NewRef(ctx, data, Len(parties) + 1)
                   ELSE refs[i]]
    /\ contacts' = contacts \o NewContacts(data, Len(parties) + 1)

\* The store after a successful create_using_magento_data
DoCreate(ctx, data) ==
    /\ parties' = Append(parties, NewParty(data))
    /\ refs' = Append(refs, NewRef(ctx, data, Len(parties) + 1))
    /\ contacts' = contacts \o NewContacts(data, Len(parties) + 1)

NMatch(ctx, mid) == Cardinality(SearchRefs(refs, mid, ctx))

HasRoom == Len(parties) < MaxParties

\* Party.find_using_magento_id(magento_id)
FindByRemoteId ==
  /\ wk = NoWorkers
  /\ UNCHANGED <<addresses, alast, mcase, wk>>
  /\ \E ctx \in Contexts, mid \in MagentoIds :
        /\ last' = Call("find_using_magento_id", ctx, mid, NoData,
                        find_using_magento_id(refs, ctx, mid), NMatch(ctx, mid))
        /\ UNCHANGED <<parties, refs, contacts>>

\* Party.find_using_magento_data(magento_data)
FindByRemoteData ==
  /\ wk = NoWorkers
  /\ UNCHANGED <<addresses, alast, mcase, wk>>
  /\ \E ctx \in Contexts, data \in Payloads :
        /\ last' = Call("find_using_magento_data", ctx, data.customer_id, data,
                        find_using_magento_data(refs, ctx, data),
                        NMatch(ctx, data.customer_id))
        /\ UNCHANGED <<parties, refs, contacts>>

\* Party.create_using_magento_data(magento_data)
CreateFromRemoteData ==
  /\ wk = NoWorkers
  /\ UNCHANGED <<addresses, alast, mcase, wk>>
  /\ \E ctx \in Contexts, data \in Payloads :
        LET out == create_outcome(refs, ctx, data)
            n == NMatch(ctx, data.customer_id) IN
        IF out = "party"
        THEN /\ HasRoom
             /\ DoCreate(ctx, data)
             /\ last' = Call("create_using_magento_data", ctx, data.customer_id, data,
                             [kind |-> "party", party |-> Len(parties) + 1], n)
        ELSE /\ last' = Call("create_using_magento_data", ctx, data.customer_id, data,
                             Err(out), n)
             /\ UNCHANGED <<parties, refs, contacts>>

\* Party.find_or_create_using_magento_data(magento_data)
FindOrCreateFromRemoteData ==
  /\ wk = NoWorkers
  /\ UNCHANGED <<addresses, alast, mcase, wk>>
  /\ \E ctx \in Contexts, data \in Payloads :
        LET op == "find_or_create_using_magento_data"
            n == NMatch(ctx, data.customer_id)
            found == find_using_magento_data(refs, ctx, data)
            out == create_outcome(refs, ctx, data) IN
        IF ctx \notin Channels
        THEN /\ last' = Call(op, ctx, data.customer_id, data, Err("ChannelContextMissing"), n)
             /\ UNCHANGED <<parties, refs, contacts>>
        ELSE IF found.kind = "party"
        THEN /\ last' = Call(op, ctx, data.customer_id, data, found, n)
             /\ UNCHANGED <<parties, refs, contacts>>
        ELSE IF out = "party"
        THEN /\ HasRoom
             /\ DoCreate(ctx, data)
             /\ last' = Call(op, ctx, data.customer_id, data,
                             [kind |-> "party", party |-> Len(parties) + 1], n)
        ELSE /\ last' = Call(op, ctx, data.customer_id, data, Err(out), n)
             /\ UNCHANGED <<parties, refs, contacts>>

\* The call of find_or_create_using_magento_id that is waiting in
\* customer_api.info: the channel and id it was called with, and the number
\* of rows its lookup matched
Waiting(ctx, mid, n) == <<[pc |-> "fetch", ctx |-> ctx, mid |-> mid, nmatch |-> n]>>

\* Party.find_or_create_using_magento_id(magento_id) up to the remote call:
\* the current channel is read and the party is looked up; a party found is
\* returned, otherwise the call opens the Magento API and waits
FocIdLookup ==
  /\ wk = NoWorkers
  /\ UNCHANGED <<parties, refs, contacts, addresses, alast, mcase>>
  /\ \E ctx \in Contexts, mid \in MagentoIds :
        LET n == NMatch(ctx, mid)
            found == find_using_magento_id(refs, ctx, mid) IN
        IF get_current_magento_channel(ctx) # "ok"
        THEN /\ last' = Call(FOC_ID, ctx, mid, NoData, Err(get_current_magento_channel(ctx)), n)
             /\ UNCHANGED wk
        ELSE IF found.kind = "party"
        THEN /\ last' = Call(FOC_ID, ctx, mid, NoData, found, n)
             /\ UNCHANGED wk
        ELSE /\ wk' = Waiting(ctx, mid, n)
             /\ UNCHANGED last

\* customer_api.info answers and create_using_magento_data runs on the store
\* as it is now
FocIdCreate ==
  /\ wk # NoWorkers
  /\ wk' = NoWorkers
  /\ UNCHANGED <<addresses, alast, mcase>>
  /\ \E data \in FetchCustomer(wk[1].mid) :
        LET out == create_outcome(refs, wk[1].ctx, data) IN
        IF out = "party"
        THEN /\ HasRoom
             /\ DoCreate(wk[1].ctx, data)
             /\ last' = Call(FOC_ID, wk[1].ctx, wk[1].mid, NoData,
                             [kind |-> "party", party |-> Len(parties) + 1], wk[1].nmatch)
        ELSE /\ last' = Call(FOC_ID, wk[1].ctx, wk[1].mid, NoData, Err(out), wk[1].nmatch)
             /\ UNCHANGED <<parties, refs, contacts>>

\* customer_api.info fails: the error leaves the call after the lookup and
\* before any write
FocIdRemoteError ==
  /\ wk # NoWorkers
  /\ wk' = NoWorkers
  /\ last' = Call(FOC_ID, wk[1].ctx, wk[1].mid, NoData, Err("RemoteError"), wk[1].nmatch)
  /\ UNCHANGED <<parties, refs, contacts, addresses, alast, mcase>>

\* Party.find_or_create_using_magento_id(magento_id): the lookup, the wait for
\* the remote customer and the create are separate steps
FindOrCreateByRemoteId ==
    \/ FocIdLookup
    \/ FocIdCreate
    \/ FocIdRemoteError

Next ==
    \/ FindByRemoteId
    \/ FindByRemoteData
    \/ CreateFromRemoteData
    \/ FindOrCreateFromRemoteData
    \/ FindOrCreateByRemoteId

Spec == Init /\ [][Next]_vars

TypeOK ==
    /\ Len(parties) <= MaxParties
    /\ Len(refs) = Len(parties)

-----------------------------------------------------------------------------
(* Properties of the party reconciler *)

Store == <<parties, refs, contacts>>

\* the step ends a call, with its outcome in last': it is not the step that
\* leaves find_or_create_using_magento_id waiting for the remote customer
CallEnds == wk' = wk \/ wk' = NoWorkers

\* C1: two consecutive calls of find_or_create_using_magento_id with the same
\* channel and id (guest id 0 included) return the same party, and the second
\* call creates no party and no RemoteCustomerRef (a second call whose remote
\* fetch failed is left aside).
C1_FindOrCreateByIdIdempotent ==
    [][ ( /\ last.op = FOC_ID /\ last.result = "party"
          /\ last'.op = FOC_ID /\ last'.ctx = last.ctx /\ last'.mid = last.mid
          /\ last'.result # "RemoteError"
          /\ CallEnds )
        => ( /\ last'.result = "party"
             /\ last'.party = last.party
             /\ parties' = parties
             /\ refs' = refs ) ]_vars

C3_DuplicateRejectedGuestExempt ==
    ( /\ last.op = CREATE
      /\ last.ctx \in Channels
      /\ last.nmatch >= 1 )
    => ( /\ last.mid # 0 => last.result = "DuplicatePartyInChannel"
         /\ last.mid = 0 => /\ last.result = "party"
                            /\ refs[Len(refs)].magento_id = 0
                            /\ refs[Len(refs)].channel = last.ctx
                            /\ Cardinality(SearchRefs(refs, 0, last.ctx)) = last.nmatch + 1 )

\* a third guest row has just been created in a channel that had two
C3_Witness ==
    /\ last.op = CREATE
    /\ last.mid = 0
    /\ last.nmatch = 2
    /\ last.result = "party"
    /\ \E k \in DOMAIN refs : refs[k].magento_id # 0 /\ refs[k].channel = last.ctx

\* C4: when more than one RemoteCustomerRef matches (channel, id), the two
\* lookups fail with AmbiguousMatch; they neither return a party nor None.
C4_AmbiguousMatchRaised ==
    ( /\ last.op \in {FIND_ID, FIND_DATA}
      /\ last.nmatch > 1 )
    => last.result = "AmbiguousMatch"

\* C5: with no current channel in the context, find_using_magento_id and
\* find_or_create_using_magento_data fail with ChannelContextMissing and the
\* store is unchanged.
C5_ChannelContextMissing ==
    [][ ( /\ CallEnds
          /\ last'.op \in {FIND_ID, FOC_DATA}
          /\ last'.ctx \notin Channels )
        => ( /\ last'.result = "ChannelContextMissing"
             /\ Store' = Store ) ]_vars

\* C7: when a RemoteCustomerRef for (current channel, payload customer id)
\* exists, find_or_create_using_magento_data returns the linked party and
\* leaves parties, RemoteCustomerRefs and contact mechanisms unchanged.
C7_NoUpdateOnHit ==
    [][ ( /\ CallEnds
          /\ last'.op = FOC_DATA
          /\ last'.ctx \in Channels
          /\ SearchRefs(refs, last'.mid, last'.ctx) # {} )
        => ( /\ last'.result = "party"
             /\ \E i \in SearchRefs(refs, last'.mid, last'.ctx) :
                    refs[i].party = last'.party
             /\ Store' = Store ) ]_vars

\* C8: every successful create_using_magento_data adds exactly one party with
\* exactly one RemoteCustomerRef (magento_id = payload customer id, channel =
\* current channel), and exactly one email contact mechanism valued as the
\* payload email when that is non-empty, none when it is empty or missing.
C8_CreateAddsOnePartyOneRef ==
    [][ ( /\ CallEnds
          /\ last'.op = CREATE
          /\ last'.result = "party" )
        => ( /\ Len(parties') = Len(parties) + 1
             /\ SubSeq(parties', 1, Len(parties)) = parties
             /\ last'.party = Len(parties')
             /\ refs' = Append(refs, [magento_id |-> last'.data.customer_id,
                                      channel |-> last'.ctx,
                                      party |-> last'.party])
             /\ last'.ctx \in Channels
             /\ IF last'.data.email \in {None, <<>>}
                THEN contacts' = contacts
                ELSE contacts' = Append(contacts, [party |-> last'.party,
                                                   type |-> "email",
                                                   value |-> last'.data.email]) ) ]_vars

\* a create with an empty email has just succeeded without writing a contact,
\* in a store where an earlier create wrote the email contact of its payload
C8_Witness ==
    /\ last.op = CREATE
    /\ last.result = "party"
    /\ last.data.email = <<>>
    /\ \E c \in DOMAIN contacts :
          /\ contacts[c].type = "email"
          /\ contacts[c].value = <<"e">>
          /\ contacts[c].party < last.party
    /\ \A c \in DOMAIN contacts : contacts[c].party # last.party
-----------------------------------------------------------------------------
(* Address reconciler: values *)

\* Country.search_using_magento_code(code): the country record of that code
search_using_magento_code(code) == <<"country">> \o code

\* Subdivision.search_using_magento_region(region, country)
search_using_magento_region(region, country) == <<"subdivision">> \o country \o region

OptStr(v) == {None, <<>>, v}

\* a key the payload does not carry: address_data[key] raises KeyError
Missing == <<"<missing>">>

\* the KeyError raised for a key the payload does not carry
KeyError == <<"<KeyError>">>

\* party.address rows a party can hold (written by this module or by the ERP)
LocalAddresses ==
    [name : OptStr(<<"J">>), street : OptStr(<<"S">>), streetbis : OptStr(<<"B">>),
     zip : OptStr(<<"Z">>), city : OptStr(<<"C">>),
     country : {None, search_using_magento_code(<<"U">>)},
     subdivision : {None, search_using_magento_region(<<"R">>, search_using_magento_code(<<"U">>))}]

NL == "\n"

\* {firstname, lastname, street, city, postcode, country_id?, region?, telephone?}
MatchPayloads ==
    [firstname : {<<>>, <<"J">>}, lastname : {None, <<>>},
     street : {<<>>, <<"S">>, <<"S", NL>>, <<"S", NL, "B">>},
     postcode : {None, <<>>, <<"Z">>}, city : {<<>>, <<"C">>},
     country_id : {Missing, None, <<>>, <<"U">>}, region : {Missing, <<>>, <<"R">>},
     telephone : {None}]

-----------------------------------------------------------------------------
(* Address reconciler: pure functions *)

\* position of the first line-break of s, 0 when it has none
FirstBreak(s) ==
    IF \E i \in 1..Len(s) : s[i] = NL
    THEN CHOOSE i \in 1..Len(s) : s[i] = NL /\ \A j \in 1..(i - 1) : s[j] # NL
    ELSE 0

\* the split made at the last line-break, as rsplit('\n', 1) would
get_street_parts_RSplit(s) ==
    IF FirstBreak(s) # 0
    THEN LET k == CHOOSE i \in 1..Len(s) :
                      s[i] = NL /\ \A j \in (i + 1)..Len(s) : s[j] # NL
         IN <<SubSeq(s, 1, k - 1), SubSeq(s, k + 1, Len(s))>>
    ELSE <<s, None>>

\* Address.get_street_parts: magento_street_address.split('\n', 1)
get_street_parts(s) ==
    IF FirstBreak(s) # 0
    THEN <<SubSeq(s, 1, FirstBreak(s) - 1), SubSeq(s, FirstBreak(s) + 1, Len(s))>>
    ELSE <<s, None>>

\* country = None; if address_data['country_id']: country = Country.search...
\* the value bound to country, or KeyError when the payload has no country_id
RemoteCountry(data) ==
    IF data.country_id = Missing THEN KeyError
    ELSE IF Truthy(data.country_id) THEN search_using_magento_code(data.country_id)
    ELSE None

\* subdivision = None; inside the test on country_id:
\* if address_data['region']: subdivision = Subdivision.search...
\* the value bound to subdivision, or KeyError when a key that is read is not
\* in the payload; region is read only under a non-empty country_id
RemoteSubdivision(data) ==
    IF data.country_id = Missing THEN KeyError
    ELSE IF ~Truthy(data.country_id) THEN None
    ELSE IF data.region = Missing THEN KeyError
    ELSE IF Truthy(data.region)
    THEN search_using_magento_region(data.region, RemoteCountry(data))
    ELSE None

\* the country and subdivision block raises KeyError
GeoRaises(data) == RemoteCountry(data) = KeyError \/ RemoteSubdivision(data) = KeyError

\* Address.match_with_magento_data: "True", "False", or "KeyError" when the
\* name matches and the country and subdivision block raises
match_with_magento_data(self, data) ==
    IF self.name # JoinName(data.firstname, data.lastname)
    THEN "False"
    ELSE IF GeoRaises(data)
    THEN "KeyError"
    ELSE IF /\ self.street = OrNone(get_street_parts(data.street)[1])
            /\ self.streetbis = OrNone(get_street_parts(data.street)[2])
            /\ self.zip = OrNone(data.postcode)
            /\ self.city = OrNone(data.city)
            /\ self.country = RemoteCountry(data)
            /\ self.subdivision = RemoteSubdivision(data)
    THEN "True"
    ELSE "False"

-----------------------------------------------------------------------------
(* match_with_magento_data on every pair of a stored address and a payload *)

InitMatch ==
    /\ parties = <<>>
    /\ refs = <<>>
    /\ contacts = <<>>
    /\ last = NoCall
    /\ addresses = <<>>
    /\ alast = NoAddrCall
    /\ wk = NoWorkers
    /\ mcase \in [self : LocalAddresses, data : MatchPayloads,
                  done : {FALSE}, result : {"none"}]

\* address.match_with_magento_data(address_data)
Matches ==
    /\ ~mcase.done
    /\ mcase' = [mcase EXCEPT !.done = TRUE,
                              !.result = match_with_magento_data(mcase.self, mcase.data)]
    /\ UNCHANGED <<parties, refs, contacts, last, addresses, alast, wk>>

NextMatch == Matches

SpecMatch == InitMatch /\ [][NextMatch]_vars

-----------------------------------------------------------------------------
(* Properties of match_with_magento_data *)

\* the two values are equal once "" and None are taken as the same
SameModuloEmpty(a, b) == OrNone(a) = OrNone(b)

\* the stored address and the payload agree on every field, "" and None alike
AgreeModuloEmpty(self, data) ==
    /\ SameModuloEmpty(self.name, JoinName(data.firstname, data.lastname))
    /\ SameModuloEmpty(self.street, get_street_parts(data.street)[1])
    /\ SameModuloEmpty(self.streetbis, get_street_parts(data.street)[2])
    /\ SameModuloEmpty(self.zip, data.postcode)
    /\ SameModuloEmpty(self.city, data.city)
    /\ self.country = RemoteCountry(data)
    /\ self.subdivision = RemoteSubdivision(data)

\* C9: match_with_magento_data treats "" and an absent value as equal on both
\* sides for name, street, streetbis, zip and city: an address and a payload
\* that differ only in such fields match.
C9_EmptyEqualsAbsent ==
    (mcase.done /\ AgreeModuloEmpty(mcase.self, mcase.data)) => mcase.result = "True"
-----------------------------------------------------------------------------
(* Address reconciler on a store *)

MaxAddresses == 2

AddrParties == {1, 2}

\* the remote addresses the orchestrator hands over; country_id and region
\* are optional keys: a payload may carry them empty, as None, or not at all
AddrPayloads ==
    { [firstname |-> <<"J">>, lastname |-> <<>>, street |-> <<"S", NL, "B">>,
       postcode |-> <<"Z">>, city |-> <<"C">>, country_id |-> <<"U">>,
       region |-> <<"R">>, telephone |-> <<"5">>],
      [firstname |-> <<"J">>, lastname |-> <<>>, street |-> <<"S", NL, "B">>,
       postcode |-> <<"Z">>, city |-> <<"C">>, country_id |-> <<"U">>,
       region |-> <<"R">>, telephone |-> None],
      [firstname |-> <<"J">>, lastname |-> <<>>, street |-> <<"S">>,
       postcode |-> <<"Z">>, city |-> <<"C">>, country_id |-> <<>>,
       region |-> <<"R">>, telephone |-> <<"5">>],
      [firstname |-> <<>>, lastname |-> <<>>, street |-> <<>>,
       postcode |-> <<>>, city |-> <<>>, country_id |-> <<>>,
       region |-> <<>>, telephone |-> <<>>],
      [firstname |-> <<"J">>, lastname |-> <<>>, street |-> <<"S">>,
       postcode |-> <<"Z">>, city |-> <<"C">>, country_id |-> None,
       region |-> <<"R">>, telephone |-> None],
      [firstname |-> <<"J">>, lastname |-> <<>>, street |-> <<"S">>,
       postcode |-> <<"Z">>, city |-> <<"C">>, country_id |-> Missing,
       region |-> <<"R">>, telephone |-> <<"5">>],
      [firstname |-> <<"J">>, lastname |-> <<>>, street |-> <<"S">>,
       postcode |-> <<"Z">>, city |-> <<"C">>, country_id |-> <<"U">>,
       region |-> Missing, telephone |-> None] }

\* the row Address.create_for_party_using_magento_data writes
NewAddress(party, data) ==
    [party |-> party,
     name |-> JoinName(data.firstname, data.lastname),
     street |-> get_street_parts(data.street)[1],
     streetbis |-> get_street_parts(data.street)[2],
     zip |-> data.postcode,
     city |-> data.city,
     country |-> RemoteCountry(data),
     subdivision |-> RemoteSubdivision(data)]

\* the same row as the ERP stores it when empty fields are left unset
UnsetEmpty(a) ==
    [a EXCEPT !.street = OrNone(a.street), !.streetbis = OrNone(a.streetbis),
              !.zip = OrNone(a.zip), !.city = OrNone(a.city)]

\* addresses the parties hold before the reconciler runs
StoredAddresses ==
    LET ds == {d \in AddrPayloads : ~GeoRaises(d)} IN
    {NewAddress(p, d) : p \in AddrParties, d \in ds}
    \cup {UnsetEmpty(NewAddress(p, d)) : p \in AddrParties, d \in ds}

\* contact mechanisms the parties hold before the reconciler runs
StoredContacts ==
    { <<>>,
      <<[party |-> 1, type |-> "mobile", value |-> <<"5">>]>>,
      <<[party |-> 2, type |-> "email", value |-> <<"5">>]>> }

\* party.addresses: the rows of the party, in stored order
PartyAddresses(as, party) == {i \in DOMAIN as : as[i].party = party}

\* the rows of the party at which the loop over party.addresses ends: the
\* match returns True, or raises
LoopStops(as, party, data) ==
    {i \in PartyAddresses(as, party) : match_with_magento_data(as[i], data) # "False"}

\* a loop that keeps the last such address instead of breaking at the first
FirstMatch_Last(as, party, data) ==
    CHOOSE i \in LoopStops(as, party, data) : \A j \in LoopStops(as, party, data) : j <= i

\* "for address in party.addresses: if address.match...: break"
FirstMatch(as, party, data) ==
    CHOOSE i \in LoopStops(as, party, data) : \A j \in LoopStops(as, party, data) : i <= j

\* ContactMechanism.search([party, type in (phone, mobile), value = telephone])
SearchPhones(cs, party, value) ==
    {c \in DOMAIN cs : /\ cs[c].party = party
                       /\ cs[c].type \in {"phone", "mobile"}
                       /\ cs[c].value = value}

\* the phone contact written without searching the party's contacts first
NewPhones_NoSearch(cs, party, data) ==
    IF Truthy(data.telephone)
    THEN <<[party |-> party, type |-> "phone", value |-> data.telephone]>>
    ELSE <<>>

\* the contact rows Address.create_for_party_using_magento_data writes
NewPhones(cs, party, data) ==
    IF Truthy(data.telephone) /\ SearchPhones(cs, party, data.telephone) = {}
    THEN <<[party |-> party, type |-> "phone", value |-> data.telephone]>>
    ELSE <<>>

\* a call that returned the address at index result
AddrCall(op, party, data, result, created) ==
    [op |-> op, party |-> party, data |-> data, result |-> result,
     created |-> created, raised |-> "none"]

\* a call that raised
AddrRaise(op, party, data, err) ==
    [op |-> op, party |-> party, data |-> data, result |-> 0,
     created |-> FALSE, raised |-> err]

InitAddr ==
    /\ parties = <<[name |-> <<"J">>], [name |-> <<"D">>]>>
    /\ refs = <<>>
    /\ contacts \in StoredContacts
    /\ last = NoCall
    /\ addresses \in {<<>>} \cup {<<a>> : a \in StoredAddresses}
                          \cup {<<a, b>> : a \in StoredAddresses, b \in StoredAddresses}
    /\ alast = NoAddrCall
    /\ mcase = NoCase
    /\ wk = NoWorkers

\* Address.create_for_party_using_magento_data(party, address_data)
CreateForParty ==
    /\ UNCHANGED <<parties, refs, last, mcase, wk>>
    /\ \E party \in AddrParties, data \in AddrPayloads :
        LET op == "create_for_party_using_magento_data" IN
        IF GeoRaises(data)
        THEN /\ alast' = AddrRaise(op, party, data, "KeyError")
             /\ UNCHANGED <<addresses, contacts>>
        ELSE /\ Len(addresses) < MaxAddresses
             /\ addresses' = Append(addresses, NewAddress(party, data))
             /\ contacts' = contacts \o NewPhones(contacts, party, data)
             /\ alast' = AddrCall(op, party, data, Len(addresses) + 1, TRUE)

\* Address.find_or_create_for_party_using_magento_data(party, address_data)
FindOrCreateForParty ==
    /\ UNCHANGED <<parties, refs, last, mcase, wk>>
    /\ \E party \in AddrParties, data \in AddrPayloads :
        LET op == "find_or_create_for_party_using_magento_data" IN
        IF LoopStops(addresses, party, data) # {}
        THEN /\ UNCHANGED <<addresses, contacts>>
             /\ IF match_with_magento_data(
                       addresses[FirstMatch(addresses, party, data)], data) = "KeyError"
                THEN alast' = AddrRaise(op, party, data, "KeyError")
                ELSE alast' = AddrCall(op, party, data,
                                       FirstMatch(addresses, party, data), FALSE)
        ELSE IF GeoRaises(data)
        THEN /\ alast' = AddrRaise(op, party, data, "KeyError")
             /\ UNCHANGED <<addresses, contacts>>
        ELSE /\ Len(addresses) < MaxAddresses
             /\ addresses' = Append(addresses, NewAddress(party, data))
             /\ contacts' = contacts \o NewPhones(contacts, party, data)
             /\ alast' = AddrCall(op, party, data, Len(addresses) + 1, TRUE)

NextAddr ==
    \/ CreateForParty
    \/ FindOrCreateForParty

SpecAddr == InitAddr /\ [][NextAddr]_vars

-----------------------------------------------------------------------------
(* Properties of the address reconciler *)

FOC_ADDR == "find_or_create_for_party_using_magento_data"

\* C10: find_or_create_for_party_using_magento_data returns the first address
\* of the party, in stored order, that matches the payload, also when a later
\* one matches too; on such a hit it creates no address and no contact
\* mechanism, even when the payload has a telephone the party does not have.
C10_FirstMatchWins ==
    [][ ( /\ alast'.op = FOC_ADDR
          /\ \E i \in DOMAIN addresses :
                /\ addresses[i].party = alast'.party
                /\ match_with_magento_data(addresses[i], alast'.data) = "True" )
        => ( /\ alast'.result \in DOMAIN addresses
             /\ addresses[alast'.result].party = alast'.party
             /\ match_with_magento_data(addresses[alast'.result], alast'.data) = "True"
             /\ \A j \in 1..(alast'.result - 1) :
                    ~( /\ addresses[j].party = alast'.party
                       /\ match_with_magento_data(addresses[j], alast'.data) = "True" )
             /\ addresses' = addresses
             /\ contacts' = contacts ) ]_vars

\* the call returned the first of two matching addresses of the party and
\* wrote nothing, although the payload has a telephone the party lacks
C10_Witness ==
    /\ alast.op = FOC_ADDR
    /\ ~alast.created
    /\ \E j \in DOMAIN addresses :
          /\ j > alast.result
          /\ addresses[j].party = alast.party
          /\ match_with_magento_data(addresses[j], alast.data) = "True"
    /\ Truthy(alast.data.telephone)
    /\ \A c \in DOMAIN contacts :
          ~(contacts[c].party = alast.party /\ contacts[c].value = alast.data.telephone)
-----------------------------------------------------------------------------
(* Two ingestion workers on one store, their steps interleaved *)

MaxConcParties == 3

Workers == {1, 2}

\* a worker between calls, with the channel, id and outcome of its last call
Idle(ctx, mid, result) ==
    [pc |-> "idle", ctx |-> ctx, mid |-> mid, data |-> NoData, party |-> 0,
     result |-> result]

\* the place of a party row that was discarded: its id is not given again
RolledBack == [name |-> None]

\* the rows other than those of the party
OtherRows(rows, pid) == SelectSeq(rows, LAMBDA r : r.party # pid)

InitConc ==
    /\ parties = <<>>
    /\ refs = <<>>
    /\ contacts = <<>>
    /\ last = NoCall
    /\ addresses = <<>>
    /\ alast = NoAddrCall
    /\ mcase = NoCase
    /\ wk = [w \in Workers |-> Idle(CtxNone, 0, "none")]

\* find_or_create_using_magento_data up to the lookup
WFind(w) ==
    /\ wk[w].pc = "idle"
    /\ UNCHANGED <<parties, refs, contacts, last, addresses, alast, mcase>>
    /\ \E ctx \in Channels \cup {CtxNone}, data \in Payloads :
        IF ctx \notin Channels
        THEN wk' = [wk EXCEPT ![w] = Idle(ctx, data.customer_id, "ChannelContextMissing")]
        ELSE IF find_using_magento_data(refs, ctx, data).kind = "party"
        THEN wk' = [wk EXCEPT ![w] = Idle(ctx, data.customer_id, "found")]
        ELSE wk' = [wk EXCEPT ![w] = [pc |-> "create", ctx |-> ctx,
                                      mid |-> data.customer_id, data |-> data,
                                      party |-> 0, result |-> "none"]]

\* find_or_create_using_magento_id up to the remote call: on a miss the worker
\* opens the Magento API and waits
WFindById(w) ==
    /\ wk[w].pc = "idle"
    /\ UNCHANGED <<parties, refs, contacts, last, addresses, alast, mcase>>
    /\ \E ctx \in Channels \cup {CtxNone}, mid \in MagentoIds :
        IF get_current_magento_channel(ctx) # "ok"
        THEN wk' = [wk EXCEPT ![w] = Idle(ctx, mid, get_current_magento_channel(ctx))]
        ELSE IF find_using_magento_id(refs, ctx, mid).kind = "party"
        THEN wk' = [wk EXCEPT ![w] = Idle(ctx, mid, "found")]
        ELSE wk' = [wk EXCEPT ![w] = [pc |-> "fetch", ctx |-> ctx, mid |-> mid,
                                      data |-> NoData, party |-> 0, result |-> "none"]]

\* customer_api.info returns to the waiting worker: with the remote customer,
\* which goes to create_using_magento_data, or with an error, which ends the
\* call before any write
WFetch(w) ==
    /\ wk[w].pc = "fetch"
    /\ UNCHANGED <<parties, refs, contacts, last, addresses, alast, mcase>>
    /\ \/ \E data \in FetchCustomer(wk[w].mid) :
             wk' = [wk EXCEPT ![w].pc = "create", ![w].data = data]
       \/ wk' = [wk EXCEPT ![w] = Idle(wk[w].ctx, wk[w].mid, "RemoteError")]

\* create_using_magento_data up to the validation: cls.create writes the
\* party with its RemoteCustomerRef and its email contact
WInsert(w) ==
    /\ wk[w].pc = "create"
    /\ Len(parties) < MaxConcParties
    /\ DoCreate(wk[w].ctx, wk[w].data)
    /\ wk' = [wk EXCEPT ![w].pc = "validate", ![w].party = Len(parties) + 1]
    /\ UNCHANGED <<last, addresses, alast, mcase>>

\* validate of the stored RemoteCustomerRef: check_unique_party searches the
\* rows of the store other than the record itself, as they are now, and
\* raises 'party_exists' or lets create return the party
WValidate(w) ==
    /\ wk[w].pc = "validate"
    /\ UNCHANGED <<parties, refs, contacts, last, addresses, alast, mcase>>
    /\ IF check_unique_party(OtherRows(refs, wk[w].party), wk[w].data.customer_id, wk[w].ctx)
       THEN wk' = [wk EXCEPT ![w].pc = "raised"]
       ELSE wk' = [wk EXCEPT ![w] = Idle(wk[w].ctx, wk[w].mid, "created")]

\* the caller of the call that raised aborts it: the rows the call wrote are
\* discarded
WAbort(w) ==
    /\ wk[w].pc = "raised"
    /\ parties' = [parties EXCEPT ![wk[w].party] = RolledBack]
    /\ refs' = OtherRows(refs, wk[w].party)
    /\ contacts' = OtherRows(contacts, wk[w].party)
    /\ wk' = [wk EXCEPT ![w] = Idle(wk[w].ctx, wk[w].mid, "DuplicatePartyInChannel")]
    /\ UNCHANGED <<last, addresses, alast, mcase>>

NextConc ==
    \E w \in Workers :
        WFind(w) \/ WFindById(w) \/ WFetch(w) \/ WInsert(w) \/ WValidate(w) \/ WAbort(w)

SpecConc == InitConc /\ [][NextConc]_vars

-----------------------------------------------------------------------------
(* Properties of interleaved find-or-create *)

\* C6: when two workers run find-or-create for the same channel and non-zero
\* magento_id with their steps interleaved, both can find no row before either
\* creates, and the later create is refused by the uniqueness check: in every
\* state of the interleaving the store holds at most one RemoteCustomerRef
\* for a (channel, non-zero magento_id).
C6_AtMostOneRefUnderInterleaving ==
    \A c \in Channels, m \in MagentoIds \ {0} :
        Cardinality(SearchRefs(refs, m, c)) <= 1

\* C11: for a party with no addresses, find_or_create_for_party_using_magento_data
\* adds exactly one address owned by that party; it adds exactly one contact
\* mechanism of type phone when the payload has a non-empty telephone and the
\* party has no phone or mobile contact with that value, and none otherwise.
C11_FirstAddressOfParty ==
    [][ ( /\ alast'.op = FOC_ADDR
          /\ \A i \in DOMAIN addresses : addresses[i].party # alast'.party )
        => ( /\ Len(addresses') = Len(addresses) + 1
             /\ SubSeq(addresses', 1, Len(addresses)) = addresses
             /\ addresses'[Len(addresses')].party = alast'.party
             /\ alast'.result = Len(addresses')
             /\ IF /\ alast'.data.telephone \notin {None, <<>>}
                   /\ \A c \in DOMAIN contacts :
                         ~( /\ contacts[c].party = alast'.party
                            /\ contacts[c].type \in {"phone", "mobile"}
                            /\ contacts[c].value = alast'.data.telephone )
                THEN contacts' = Append(contacts, [party |-> alast'.party,
                                                   type |-> "phone",
                                                   value |-> alast'.data.telephone])
                ELSE contacts' = contacts ) ]_vars

-----------------------------------------------------------------------------
(* get_street_parts on every raw street up to a length *)

MaxStreetLen == 5

StreetChars == {"A", "B", NL}

\* the raw street strings of the remote system
RawStreets == UNION {[1..n -> StreetChars] : n \in 0..MaxStreetLen}

InitSplit ==
    /\ parties = <<>>
    /\ refs = <<>>
    /\ contacts = <<>>
    /\ last = NoCall
    /\ addresses = <<>>
    /\ alast = NoAddrCall
    /\ wk = NoWorkers
    /\ mcase \in [raw : RawStreets, done : {FALSE}, street : {<<>>}, streetbis : {None}]

\* Address.get_street_parts(magento_street_address)
SplitStreet ==
    /\ ~mcase.done
    /\ mcase' = [mcase EXCEPT !.done = TRUE,
                              !.street = get_street_parts(mcase.raw)[1],
                              !.streetbis = get_street_parts(mcase.raw)[2]]
    /\ UNCHANGED <<parties, refs, contacts, last, addresses, alast, wk>>

NextSplit == SplitStreet

SpecSplit == InitSplit /\ [][NextSplit]_vars

\* C12: get_street_parts splits the raw street on its first line-break only:
\* the text before it is street, everything after it (further line-breaks
\* included) is streetbis unchanged; without a line-break street is the whole
\* input and streetbis is None.
C12_SplitOnFirstBreakOnly ==
    mcase.done =>
        IF \E i \in DOMAIN mcase.raw : mcase.raw[i] = NL
        THEN /\ \A i \in DOMAIN mcase.street : mcase.street[i] # NL
             /\ mcase.streetbis # None
             /\ mcase.raw = mcase.street \o <<NL>> \o mcase.streetbis
        ELSE /\ mcase.street = mcase.raw
             /\ mcase.streetbis = None

\* a raw street with two line-breaks was split: the second one is in streetbis
C12_Witness ==
    /\ mcase.done
    /\ Cardinality({i \in DOMAIN mcase.raw : mcase.raw[i] = NL}) = 2
    /\ mcase.street = <<"A">>
    /\ mcase.streetbis = <<"B", NL, "A">>
-----------------------------------------------------------------------------
(* Lifecycle and scoping of RemoteCustomerRef rows *)

\* C13: once a RemoteCustomerRef exists it is present in every later state
\* with the same magento_id, channel and party: no operation, succeeding or
\* failing, modifies or deletes an existing row.
C13_RefsNeverChange ==
    [][ /\ Len(refs') >= Len(refs)
        /\ \A i \in DOMAIN refs : refs'[i] = refs[i] ]_vars

\* three rows are stored, two of them guest rows of one channel, and the last
\* call was a create refused as a duplicate
C13_Witness ==
    /\ Len(refs) >= 3
    /\ \E i, j \in DOMAIN refs :
          /\ i < j
          /\ refs[i].magento_id = 0 /\ refs[j].magento_id = 0
          /\ refs[i].channel = refs[j].channel
          /\ refs[i].party = i /\ refs[j].party = j
    /\ last.op \in {CREATE, FOC_DATA, FOC_ID}
    /\ last.result = "DuplicatePartyInChannel"

\* the outcome of the last party-reconciler call
Outcome(call) == [kind |-> call.result, party |-> call.party]

\* C14: find_using_magento_id and find_using_magento_data leave the whole
\* store unchanged in every outcome (party, None or failure), and for the same
\* channel and the same id they return the same result.
C14_LookupsPureAndEqual ==
    [][ /\ (CallEnds /\ last'.op = FIND_ID)
           => /\ Store' = Store
              /\ \A d \in Payloads :
                    d.customer_id = last'.mid
                    => find_using_magento_data(refs, last'.ctx, d) = Outcome(last')
        /\ (CallEnds /\ last'.op = FIND_DATA)
           => /\ Store' = Store
              /\ find_using_magento_id(refs, last'.ctx, last'.data.customer_id)
                    = Outcome(last') ]_vars

\* a lookup by payload returned the party of the one matching row of its
\* channel, in a store where another channel holds a row with the same id
C14_Witness ==
    /\ last.op = FIND_DATA
    /\ Len(parties) = 3
    /\ last.result = "party"
    /\ last.party = 2
    /\ last.nmatch = 1
    /\ \E i \in DOMAIN refs : refs[i].magento_id = last.mid /\ refs[i].channel # last.ctx

\* C15: two consecutive find_or_create_for_party_using_magento_data calls with
\* the same party and payload (payloads with empty strings included) return
\* the same address and the second call creates no address.
C15_AddressFindOrCreateIdempotent ==
    [][ ( /\ alast.op = FOC_ADDR
          /\ alast'.op = FOC_ADDR
          /\ alast'.party = alast.party
          /\ alast'.data = alast.data )
        => ( /\ alast'.result = alast.result
             /\ addresses' = addresses ) ]_vars

\* C16: starting from a store without duplicate contacts, no party ever has
\* two contact mechanisms of type phone or mobile with the same value.
C16_NoDuplicatePhone ==
    \A c, d \in DOMAIN contacts :
        ( /\ c # d
          /\ contacts[c].party = contacts[d].party
          /\ contacts[c].type \in {"phone", "mobile"}
          /\ contacts[d].type \in {"phone", "mobile"} )
        => contacts[c].value # contacts[d].value

\* a second address was created for a party from a payload whose telephone
\* the reconciler had already stored as a phone contact of that party
C16_Witness ==
    /\ alast.op = FOC_ADDR
    /\ alast.created
    /\ alast.data.telephone = <<"5">>
    /\ \E i \in PartyAddresses(addresses, alast.party) :
          /\ i < alast.result
          /\ addresses[i] # addresses[alast.result]
    /\ Cardinality({c \in DOMAIN contacts :
                       /\ contacts[c].party = alast.party
                       /\ contacts[c].type = "phone"
                       /\ contacts[c].value = alast.data.telephone}) = 1
    /\ \E c \in DOMAIN contacts : contacts[c].party # alast.party

CREATE_ADDR == "create_for_party_using_magento_data"

\* C17: when the payload gives no country code (the key is not in the
\* payload, or holds None or ""), the stored address is compared with country
\* None and subdivision None, also when the payload gives a region: the call
\* returns an address, match_with_magento_data is False for every stored
\* address that has a country or a subdivision, and the address returned
\* (created on a miss, or found) has neither.
C17_NoCountryCodeMeansNone ==
    ( /\ alast.op \in {FOC_ADDR, CREATE_ADDR}
      /\ alast.data.country_id \in {Missing, None, <<>>} )
    => ( /\ alast.raised = "none"
         /\ \A i \in DOMAIN addresses :
               (addresses[i].country # None \/ addresses[i].subdivision # None)
               => match_with_magento_data(addresses[i], alast.data) = "False"
         /\ addresses[alast.result].country = None
         /\ addresses[alast.result].subdivision = None )

\* C18: lookups are scoped to the current channel: find_using_magento_id under
\* a channel returns only a party that has a RemoteCustomerRef with that id in
\* that channel, and a find-or-create for an id that has no row in the current
\* channel creates the row of that channel without a DuplicatePartyInChannel
\* failure, also when another channel holds a row with the same id; the only
\* other end of such a call is a failed remote fetch of
\* find_or_create_using_magento_id, which writes nothing.
C18_ScopedToCurrentChannel ==
    [][ /\ ( /\ CallEnds
             /\ last'.op = FIND_ID
             /\ last'.result = "party" )
           => \E i \in DOMAIN refs :
                 /\ refs[i].party = last'.party
                 /\ refs[i].magento_id = last'.mid
                 /\ refs[i].channel = last'.ctx
        /\ ( /\ CallEnds
             /\ last'.op \in {FOC_ID, FOC_DATA}
             /\ last'.ctx \in Channels
             /\ \A i \in DOMAIN refs :
                   ~(refs[i].magento_id = last'.mid /\ refs[i].channel = last'.ctx) )
           => \/ /\ last'.result = "party"
                 /\ refs' = Append(refs, [magento_id |-> last'.mid,
                                          channel |-> last'.ctx,
                                          party |-> Len(parties')])
                 /\ last'.party = Len(parties')
              \/ /\ last'.op = FOC_ID
                 /\ last'.result = "RemoteError"
                 /\ refs' = refs ]_vars

\* customer 1 was resolved by find-or-create under one channel and then under
\* the other: the store holds one row per channel, for two parties
C18_Witness ==
    /\ last.op = FOC_ID
    /\ last.result = "party"
    /\ last.mid = 1
    /\ \E i, j \in DOMAIN refs :
          /\ refs[i].magento_id = 1 /\ refs[j].magento_id = 1
          /\ refs[i].channel # refs[j].channel
          /\ refs[j].channel = last.ctx
          /\ refs[j].party = last.party
          /\ refs[i].party # last.party
          /\ i < j /\ j = Len(refs)
====
